---- MODULE Spec2Model ----
(***************************************************************************)
(* Bearing fault vibration simulator of the maintenance assistant app:     *)
(* BearingFaultSimulator (bearing_fault_simulator.py) and RideSimulator    *)
(* (ride_simulator.py), as shared by the request threads of api_server.py. *)
(*                                                                         *)
(* Units.  Python floats are held in fixed point:                          *)
(*   acceleration   milli-g                 (0.02 g  = 20)                 *)
(*   severity       hundredths              (0.35    = 35)                 *)
(*   timestamp      ticks of 1/4 second                                    *)
(*   frequency      units of 1/600 Hz       (rpm*nb/60*0.4 = rpm*nb*4)     *)
(*   phase          units of 1/48 turn      (freq*t/50)                    *)
(*   sine           thousandths                                            *)
(* With these units every phase the code computes is a whole number.       *)
(***************************************************************************)
EXTENDS Integers, Sequences, FiniteSets, TLC

(* ------------------------------ bounds --------------------------------- *)
MaxLen == 2          \* longest baseline trace (samples)
MaxRides == 3        \* calls begin only while ride_counter is below this
MaxK == 2            \* largest samples_per_class
MaxConcRides == 2    \* cap on calls started by the concurrent callers
MaxAlertAssets == 3  \* assets that alerts are raised for
MaxExtra == 2        \* repeated alerts plus acknowledgements in one run
MaxApiRides == 1     \* requests reach the simulator only while ride_counter is below this
MaxAssetRows == 1    \* rows ever added to the assets table

(* --------------------------- data model -------------------------------- *)
RequiredColumns == {"timestamp", "accel_x", "accel_y", "accel_z"}

FaultLabels == <<"NORMAL", "OUTER_RACE_FAULT", "INNER_RACE_FAULT", "BALL_FAULT", "CAGE_FAULT">>

FaultLabelSet == {FaultLabels[i] : i \in 1..Len(FaultLabels)}

Threads == {1, 2}

\* A DataFrame: its column names, its rows (functions column -> value) and
\* whether an exception is propagating through the statement sequence.
EmptyFrame == [columns |-> {}, rows |-> <<>>, err |-> FALSE]

\* Sample i of the recorded trace restricted to the columns cols.
TraceRow(i, cols) ==
    LET full == [c \in RequiredColumns |->
                    CASE c = "timestamp" -> i - 1
                      [] c = "accel_x"   -> 100 * i
                      [] c = "accel_y"   -> 0 - (50 * i)
                      [] OTHER           -> 1000]
    IN  [c \in cols |-> full[c]]

\* pd.read_csv(baseline_data_path): any header, any number of samples.
read_csv ==
    { [columns |-> RequiredColumns \ m,
       rows    |-> [i \in 1..n |-> TraceRow(i, RequiredColumns \ m)],
       err     |-> FALSE] :
         n \in 0..MaxLen,
         m \in {{}} \cup {{c} : c \in RequiredColumns} }

NoiseVals == {0 - 20, 20}

\* np.random.normal(0, sigma, n): here the same deviation on every sample
NoiseVectors(n) == {[i \in 1..n |-> v] : v \in NoiseVals}

CallerSeverities == {0, 150}

(* --------------------------- arithmetic -------------------------------- *)
SinQuarter == <<0, 131, 259, 383, 500, 609, 707, 793, 866, 924, 966, 991, 1000>>

\* np.sin of a phase given in 1/48 turns, in thousandths.
Sin48(p) ==
    LET q == p % 48
    IN  IF q <= 12 THEN SinQuarter[q + 1]
        ELSE IF q <= 24 THEN SinQuarter[24 - q + 1]
        ELSE IF q <= 36 THEN 0 - SinQuarter[q - 24 + 1]
        ELSE 0 - SinQuarter[48 - q + 1]

\* 2*pi*freq*t as a phase in 1/48 turns (freq in 1/600 Hz, t in 1/4 s).
Phase(freq, t) == (freq * t) \div 50

(* ------------------------ DataFrame operations ------------------------- *)
\* df.copy()
CopyFrame(df) == df

\* df[col].values ; a missing column raises KeyError.
HasColumn(df, col) == (~df.err) /\ col \in df.columns

Values(df, col) == [i \in 1..Len(df.rows) |-> df.rows[i][col]]

Raise(df) == [df EXCEPT !.err = TRUE]

\* df[col] += delta  (delta: one value per row)
AddTo(df, col, delta) ==
    IF df.err THEN df
    ELSE IF col \notin df.columns THEN Raise(df)
    ELSE [df EXCEPT !.rows = [i \in 1..Len(df.rows) |->
                                 [df.rows[i] EXCEPT ![col] = @ + delta[i]]]]

\* df[col] = value  (scalar broadcast to every row; creates the column)
SetColumn(df, col, value) ==
    IF df.err THEN df
    ELSE [df EXCEPT !.columns = @ \cup {col},
                    !.rows = [i \in 1..Len(df.rows) |->
                                 LET row == df.rows[i]
                                 IN  [c \in df.columns \cup {col} |->
                                         IF c = col THEN value ELSE row[c]]]]

\* delta * num / den, element by element
Scale(delta, num, den) == [i \in 1..Len(delta) |-> (delta[i] * num) \div den]


\* df[col] *= num/den  (num: one value per row)
MulBy(df, col, num, den) ==
    IF df.err THEN df
    ELSE IF col \notin df.columns THEN Raise(df)
    ELSE [df EXCEPT !.rows = [i \in 1..Len(df.rows) |->
                                 [df.rows[i] EXCEPT ![col] = (@ * num[i]) \div den]]]

(* ----------------------- BearingFaultSimulator ------------------------- *)
\* self.bearing_params
BearingParams ==
    [shaft_speed |-> 25, ball_count |-> 8, contact_angle |-> 0,
     pitch_diameter |-> 50, ball_diameter |-> 8]

\* _calculate_fault_frequencies, in units of 1/600 Hz
\*   rpm*nb/60*0.4 = rpm*nb*4/600 ; rpm/60*0.4 = rpm*4/600
_calculate_fault_frequencies(params) ==
    LET rpm == params.shaft_speed
        nb  == params.ball_count
    IN  [outer_race |-> rpm * nb * 4,
         inner_race |-> rpm * nb * 6,
         ball_fault |-> rpm * nb * 8,
         cage_fault |-> rpm * 4]

\* self.ride_counter += 1
IncrementCounter_twice(rc) == rc + 2

IncrementCounter_stuck(rc) == rc

IncrementCounter(rc) == rc + 1

\* ride_data['ride_id'] = self.ride_counter ; ride_data['fault_type'] = label
Stamp(df, counter, label) ==
    SetColumn(SetColumn(df, "ride_id", counter), "fault_type", label)

\* the three `ride_data[axis] += noise` lines shared by the fault methods
AddNoise_all(df, noise) ==
    AddTo(AddTo(AddTo(AddTo(df, "accel_x", noise), "accel_y", noise),
                "accel_z", noise), "timestamp", noise)

AddNoise(df, noise) ==
    AddTo(AddTo(AddTo(df, "accel_x", noise), "accel_y", noise), "accel_z", noise)

\* the three `ride_data[axis] += signal * weight` lines (weights in tenths)
AddSignal(df, sig, wx, wy, wz) ==
    AddTo(AddTo(AddTo(df, "accel_x", Scale(sig, wx, 10)),
                "accel_y", Scale(sig, wy, 10)),
          "accel_z", Scale(sig, wz, 10))

\* simulate_normal_ride, after the counter increment: noise is the three
\* independent np.random.normal draws, counter the value of
\* self.ride_counter when the ride_id column is written.
simulate_normal_ride_body(baseline, noise, counter) ==
    LET d0 == CopyFrame(baseline)
        d1 == AddTo(d0, "accel_x", noise.x)
        d2 == AddTo(d1, "accel_y", noise.y)
        d3 == AddTo(d2, "accel_z", noise.z)
    IN  Stamp(d3, counter, "NORMAL")

\* simulate_outer_race_fault, after the counter increment
simulate_outer_race_fault_body(baseline, freqs, severity, noise, counter) ==
    LET d0 == CopyFrame(baseline)
        d1 == IF HasColumn(d0, "timestamp") THEN d0 ELSE Raise(d0)
        t  == IF d1.err THEN <<>> ELSE Values(d0, "timestamp")
        freq == freqs.outer_race
        train == [i \in 1..Len(t) |->
                    LET p == Phase(freq, t[i])
                        raw == (severity * (10 * Sin48(p) + 3 * Sin48(2 * p)
                                            + Sin48(3 * p))) \div 1000
                        modulation == 5000 + Sin48(Phase(300, t[i]))
                    IN  (raw * modulation) \div 5000]
        d2 == AddSignal(d1, train, 7, 5, 2)
        d3 == AddNoise(d2, noise)
    IN  Stamp(d3, counter, "OUTER_RACE_FAULT")

\* simulate_inner_race_fault, after the counter increment
simulate_inner_race_fault_body(baseline, freqs, params, severity, noise, counter) ==
    LET d0 == CopyFrame(baseline)
        d1 == IF HasColumn(d0, "timestamp") THEN d0 ELSE Raise(d0)
        t  == IF d1.err THEN <<>> ELSE Values(d0, "timestamp")
        freq == freqs.inner_race
        shaft_freq == params.shaft_speed * 10
        fault == [i \in 1..Len(t) |->
                    LET p == Phase(freq, t[i])
                        modulation == 2000 + Sin48(Phase(shaft_freq, t[i]))
                        first == (((severity * Sin48(p)) \div 100) * modulation) \div 2000
                        harmonic == (((severity * 4 * Sin48(2 * p)) \div 1000)
                                        * modulation) \div 2000
                    IN  first + harmonic]
        d2 == AddSignal(d1, fault, 8, 9, 3)
        d3 == AddNoise(d2, noise)
    IN  Stamp(d3, counter, "INNER_RACE_FAULT")

\* simulate_ball_fault, after the counter increment (pi/4 = 6/48 turn)
simulate_ball_fault_body(baseline, freqs, severity, noise, counter) ==
    LET d0 == CopyFrame(baseline)
        d1 == IF HasColumn(d0, "timestamp") THEN d0 ELSE Raise(d0)
        t  == IF d1.err THEN <<>> ELSE Values(d0, "timestamp")
        freq == freqs.ball_fault
        cage_freq == freqs.cage_fault
        fault == [i \in 1..Len(t) |->
                    LET p == Phase(freq, t[i])
                        raw == (severity * (10 * Sin48(p) + 6 * Sin48(p + 6))) \div 1000
                        modulation == 10000 + 3 * Sin48(Phase(cage_freq, t[i]))
                    IN  (raw * modulation) \div 10000]
        d2 == AddSignal(d1, fault, 6, 7, 1)
        d3 == AddNoise(d2, noise)
    IN  Stamp(d3, counter, "BALL_FAULT")

\* simulate_cage_fault, after the counter increment
simulate_cage_fault_body_late(baseline, freqs, severity, noise, counter) ==
    LET d0 == CopyFrame(baseline)
        d1 == IF HasColumn(d0, "timestamp") THEN d0 ELSE Raise(d0)
        t  == IF d1.err THEN <<>> ELSE Values(d0, "timestamp")
        cage_freq == freqs.cage_fault
        modulation == [i \in 1..Len(t) |-> 100000 + severity * Sin48(Phase(cage_freq, t[i]))]
        cage_signal == [i \in 1..Len(t) |-> (severity * Sin48(Phase(cage_freq, t[i]))) \div 200]
        d2 == AddTo(AddTo(AddTo(d1, "accel_x", cage_signal), "accel_y", cage_signal), "accel_z", Scale(cage_signal, 5, 10))
        d3 == MulBy(MulBy(MulBy(d2, "accel_x", modulation, 100000), "accel_y", modulation, 100000), "accel_z", modulation, 100000)
        d4 == AddNoise(d3, noise)
    IN  Stamp(d4, counter, "CAGE_FAULT")

simulate_cage_fault_body(baseline, freqs, severity, noise, counter) ==
    LET d0 == CopyFrame(baseline)
        d1 == IF HasColumn(d0, "timestamp") THEN d0 ELSE Raise(d0)
        t  == IF d1.err THEN <<>> ELSE Values(d0, "timestamp")
        cage_freq == freqs.cage_fault
        modulation == [i \in 1..Len(t) |->
                          100000 + severity * Sin48(Phase(cage_freq, t[i]))]
        d2 == MulBy(MulBy(MulBy(d1, "accel_x", modulation, 100000),
                          "accel_y", modulation, 100000),
                    "accel_z", modulation, 100000)
        cage_signal == [i \in 1..Len(t) |->
                           (severity * Sin48(Phase(cage_freq, t[i]))) \div 200]
        d3 == AddTo(AddTo(AddTo(d2, "accel_x", cage_signal),
                          "accel_y", cage_signal),
                    "accel_z", Scale(cage_signal, 5, 10))
        d4 == AddNoise(d3, noise)
    IN  Stamp(d4, counter, "CAGE_FAULT")


\* def simulate_*_fault(self, severity=...): the default arguments
DefaultSeverity(label) ==
    CASE label = "OUTER_RACE_FAULT" -> 30
      [] label = "INNER_RACE_FAULT" -> 40
      [] label = "BALL_FAULT"       -> 35
      [] label = "CAGE_FAULT"       -> 25

\* random.uniform(lo, hi) falling at the low end, the middle or the high end
UniformAt(range, at) == range[1] + (at * (range[2] - range[1])) \div 2

\* random.uniform(lo, hi): some value of [lo, hi]; here an end or the middle
Uniform(range) == {UniformAt(range, at) : at \in {0, 1, 2}}

\* generate_fault_dataset: the random.uniform arguments of the lambdas
DatasetRange(label) ==
    CASE label = "OUTER_RACE_FAULT" -> <<20, 50>>
      [] label = "INNER_RACE_FAULT" -> <<30, 60>>
      [] label = "BALL_FAULT"       -> <<20, 40>>
      [] label = "CAGE_FAULT"       -> <<10, 30>>

\* One method of the simulator chosen by its label, after the increment.
Body(label, baseline, freqs, params, severity, noise, counter) ==
    CASE label = "NORMAL" ->
            simulate_normal_ride_body(baseline, noise, counter)
      [] label = "OUTER_RACE_FAULT" ->
            simulate_outer_race_fault_body(baseline, freqs, severity, noise.x, counter)
      [] label = "INNER_RACE_FAULT" ->
            simulate_inner_race_fault_body(baseline, freqs, params, severity, noise.x, counter)
      [] label = "BALL_FAULT" ->
            simulate_ball_fault_body(baseline, freqs, severity, noise.x, counter)
      [] label = "CAGE_FAULT" ->
            simulate_cage_fault_body(baseline, freqs, severity, noise.x, counter)

\* simulate_normal_ride draws one noise array per axis.
NoiseDraws(n) == [x : NoiseVectors(n), y : NoiseVectors(n), z : NoiseVectors(n)]

\* The fault methods draw one noise array and add it to all three axes.
SharedNoise(n) == {[x |-> v, y |-> v, z |-> v] : v \in NoiseVectors(n)}

\* The noise a method of the given label draws.
NoiseFor(label, n) == IF label = "NORMAL" THEN NoiseDraws(n) ELSE SharedNoise(n)

\* What a consumer reads off a returned record: the operation that made it,
\* its length and the values found in its ride_id and fault_type columns.
Summary(ride, label) ==
    [op |-> label,
     n |-> Len(ride.rows),
     columns |-> ride.columns,
     ride_ids |-> {ride.rows[i]["ride_id"] : i \in 1..Len(ride.rows)},
     fault_types |-> {ride.rows[i]["fault_type"] : i \in 1..Len(ride.rows)}]

\* ride_data = self.baseline_data.copy(): the copy is a separate object, so
\* what the method then does to ride_data does not reach self.baseline_data.
BaselineAfterRide_alias(baseline, ride) == [ride EXCEPT !.err = FALSE]

BaselineAfterRide(baseline, ride) == baseline

\* for _ in range(samples_per_class)
range_len_plus(n) == n + 1

range_len(n) == n

\* The label and the sample number of the idx-th call of the two loops.
DatasetLabel(idx, per) == FaultLabels[((idx - 1) \div per) + 1]

DatasetSample(idx, per) == ((idx - 1) % per) + 1

\* generate_fault_dataset(samples_per_class = k).  sevs[label][j] is the
\* severity the label's lambda draws for its j-th sample.  The list is kept
\* as the summaries of its records, which do not depend on the noise, so a
\* single noise vector stands for every draw.  An exception raised by a
\* method ends the loop and leaves the counter where the method left it.
generate_fault_dataset_fn(k, sevs, rc0, baseline0, freqs, params) ==
    LET per == range_len(k)
        noise == [a \in {"x", "y", "z"} |-> [i \in 1..Len(baseline0.rows) |-> 20]]
        \* for _ in range(samples_per_class), for the label numbered li
        RECURSIVE Samples(_, _, _)
        Samples(li, j, st) ==
            IF j > per THEN st
            ELSE LET label == FaultLabels[li]
                     sev   == IF label = "NORMAL" THEN 0 ELSE sevs[label][j]
                     rc1   == IncrementCounter(st.ride_counter)
                     ride  == Body(label, st.baseline, freqs, params, sev, noise, rc1)
                     base1 == BaselineAfterRide(st.baseline, ride)
                 IN  IF ride.err
                     THEN [err |-> TRUE, ride_counter |-> rc1, baseline |-> base1,
                           records |-> st.records]
                     ELSE Samples(li, j + 1,
                                  [err |-> FALSE, ride_counter |-> rc1,
                                   baseline |-> base1,
                                   records |-> Append(st.records, Summary(ride, label))])
        \* for fault_type, simulator_func in fault_types
        RECURSIVE Labels(_, _)
        Labels(li, st) ==
            IF li > Len(FaultLabels) \/ st.err THEN st
            ELSE Labels(li + 1, Samples(li, 1, st))
    IN  Labels(1, [err |-> FALSE, ride_counter |-> rc0, baseline |-> baseline0,
                   records |-> <<>>])

(* ----------------------------- RideSimulator --------------------------- *)
\* run_ride_cycle: the random.uniform arguments of the branches
CycleRange_wide(label) ==
    CASE label = "OUTER_RACE_FAULT" -> <<20, 50>>
      [] label = "INNER_RACE_FAULT" -> <<30, 60>>
      [] label = "BALL_FAULT"       -> <<20, 50>>
      [] label = "CAGE_FAULT"       -> <<10, 30>>

CycleRange(label) ==
    CASE label = "OUTER_RACE_FAULT" -> <<20, 50>>
      [] label = "INNER_RACE_FAULT" -> <<30, 60>>
      [] label = "BALL_FAULT"       -> <<20, 40>>
      [] label = "CAGE_FAULT"       -> <<10, 30>>

\* The tail of run_ride_cycle: ride_data['timestamp_real'] = now, then the
\* print of ride_data['timestamp'].max(), then return.
CycleTail(ride) ==
    LET d == SetColumn(ride, "timestamp_real", "now")
    IN  IF d.err \/ "timestamp" \in d.columns THEN d ELSE Raise(d)

\* floor of the square root
RECURSIVE ISqrt(_)
ISqrt(n) ==
    IF n < 2 THEN n
    ELSE LET s == 2 * ISqrt(n \div 4)
         IN  IF (s + 1) * (s + 1) > n THEN s ELSE s + 1

RECURSIVE SeqSum(_)
SeqSum(q) == IF Len(q) = 0 THEN 0 ELSE Head(q) + SeqSum(Tail(q))

\* Series.max() of a non-empty column
SeqMax(q) == CHOOSE v \in {q[i] : i \in 1..Len(q)} : \A i \in 1..Len(q) : q[i] <= v

\* (magnitude > magnitude.quantile(0.95)).sum(): for a trace of at most 21
\* samples the interpolated quantile lies at or above the second largest
\* value and below the largest when the two differ.
PeakEvents(magnitude) ==
    IF \E i \in 1..Len(magnitude) :
         \A j \in 1..Len(magnitude) : j # i => magnitude[j] < magnitude[i]
    THEN IF Len(magnitude) > 1 THEN 1 ELSE 0
    ELSE 0

SummaryColumns ==
    {"accel_x", "accel_y", "accel_z", "ride_id", "fault_type", "timestamp",
     "timestamp_real"}

\* RideSimulator.get_ride_summary: a missing column is a KeyError and
\* .iloc[0] of an empty column an IndexError.
get_ride_summary(ride_data) ==
    IF ~(SummaryColumns \subseteq ride_data.columns) \/ Len(ride_data.rows) = 0
    THEN [err |-> TRUE]
    ELSE LET n  == Len(ride_data.rows)
             sq == [i \in 1..n |->
                      ride_data.rows[i]["accel_x"] * ride_data.rows[i]["accel_x"]
                      + ride_data.rows[i]["accel_y"] * ride_data.rows[i]["accel_y"]
                      + ride_data.rows[i]["accel_z"] * ride_data.rows[i]["accel_z"]]
             magnitude == [i \in 1..n |-> ISqrt(sq[i])]
         IN  [err |-> FALSE,
              ride_id |-> ride_data.rows[1]["ride_id"],
              fault_type |-> ride_data.rows[1]["fault_type"],
              duration |-> SeqMax(Values(ride_data, "timestamp")),
              max_acceleration |-> SeqMax(magnitude),
              rms_acceleration |-> ISqrt(SeqSum(sq) \div n),
              peak_events |-> PeakEvents(magnitude),
              timestamp |-> ride_data.rows[1]["timestamp_real"],
              is_faulty |-> ride_data.rows[1]["fault_type"] # "NORMAL"]

(* ------------------------- api_server: alerts -------------------------- *)
\* "Keep only last 10 alerts"
AlertLimit == 10

\* the fault types an alert can carry, in a fixed order
AlertFaults == <<"OUTER_RACE_FAULT", "INNER_RACE_FAULT", "BALL_FAULT", "CAGE_FAULT">>

AlertAssetIds == 1..MaxAlertAssets

\* The k-th (asset_id, fault_type) pair: create_alert compares pairs for
\* equality only, so the pairs are numbered in the order they first appear.
AlertPair(k) ==
    [asset_id |-> ((k - 1) \div Len(AlertFaults)) + 1,
     fault_type |-> AlertFaults[((k - 1) % Len(AlertFaults)) + 1]]

NumAlertPairs == MaxAlertAssets * Len(AlertFaults)

\* severity.lower()
Lower(severity) ==
    CASE severity = "LOW" -> "low"
      [] severity = "MEDIUM" -> "medium"
      [] severity = "HIGH" -> "high"
      [] OTHER -> severity

\* alert['asset_id'] == asset_id and alert['fault_type'] == fault_type
SamePair_never(alert, asset_id, fault_type) == FALSE

SamePair(alert, asset_id, fault_type) ==
    alert.asset_id = asset_id /\ alert.fault_type = fault_type

\* if len(active_alerts) > 10: active_alerts = active_alerts[-10:]
KeepLast_front(alerts) ==
    IF Len(alerts) > AlertLimit THEN SubSeq(alerts, 1, AlertLimit) ELSE alerts

KeepLast(alerts) ==
    IF Len(alerts) > AlertLimit
    THEN SubSeq(alerts, Len(alerts) - AlertLimit + 1, Len(alerts))
    ELSE alerts

\* create_alert: the value of active_alerts after the call
create_alert_fn(alerts, asset_id, fault_type, confidence, severity) ==
    LET kept  == SelectSeq(alerts, LAMBDA a : ~SamePair(a, asset_id, fault_type))
        alert == [id |-> Len(kept) + 1,
                  asset_id |-> asset_id,
                  fault_type |-> fault_type,
                  confidence |-> confidence,
                  severity |-> Lower(severity),
                  timestamp |-> "now",
                  acknowledged |-> FALSE]
    IN  KeepLast(Append(kept, alert))

\* acknowledge_alert: the loop stops at the first alert carrying the id
FirstWithId(alerts, alert_id) ==
    IF \E i \in 1..Len(alerts) : alerts[i].id = alert_id
    THEN CHOOSE i \in 1..Len(alerts) :
            /\ alerts[i].id = alert_id
            /\ \A j \in 1..(i - 1) : alerts[j].id # alert_id
    ELSE 0

acknowledge_alert_fn(alerts, alert_id) ==
    LET i == FirstWithId(alerts, alert_id)
    IN  IF i = 0 THEN [status |-> 404, alerts |-> alerts]
        ELSE [status |-> 200,
              alerts |-> [alerts EXCEPT ![i].acknowledged = TRUE]]

(* ------------------------ authentication ------------------------------- *)
Groups == {"Administrators", "Operators", "Viewers"}

\* A request as the decorator sees it: the Authorization header ("none":
\* absent, "basic": present without the 'Bearer ' prefix, "bearer"), whether
\* jwt.decode accepts the token, and the token's cognito:groups.
NoHeader == [header |-> "none", token_valid |-> FALSE, groups |-> {}]

BasicHeader == [header |-> "basic", token_valid |-> FALSE, groups |-> {}]

BadToken == [header |-> "bearer", token_valid |-> FALSE, groups |-> {"Administrators"}]

NoGroupsUser == [header |-> "bearer", token_valid |-> TRUE, groups |-> {}]

ViewerUser == [header |-> "bearer", token_valid |-> TRUE, groups |-> {"Viewers"}]

OperatorUser == [header |-> "bearer", token_valid |-> TRUE, groups |-> {"Operators"}]

AdminUser == [header |-> "bearer", token_valid |-> TRUE, groups |-> {"Administrators"}]

OperatorViewerUser ==
    [header |-> "bearer", token_valid |-> TRUE, groups |-> {"Operators", "Viewers"}]

AuthCases ==
    {NoHeader, BasicHeader, BadToken, NoGroupsUser, ViewerUser, OperatorUser,
     AdminUser, OperatorViewerUser}

\* verify_user_token: the decoded token, or None when anything fails
verify_user_token(req) ==
    IF req.token_valid THEN [groups |-> req.groups] ELSE [groups |-> {"None"}]

IsNone(user_info) == user_info.groups = {"None"}

\* check_user_permissions
check_user_permissions(user_info, required_groups) ==
    IF IsNone(user_info) THEN FALSE
    ELSE \E group \in required_groups : group \in user_info.groups

\* The wrapper made by require_auth(required_groups), and the same steps
\* written inline in chat(): the status it answers with, or 0 when it
\* goes on to call the handler.  An empty required_groups is falsy.
require_auth_trusting(required_groups, req) ==
    IF req.header # "bearer" THEN 401
    ELSE IF required_groups # {} /\ req.groups # {}
              /\ ~(\E group \in required_groups : group \in req.groups)
         THEN 403
         ELSE 0

require_auth_lax(required_groups, req) ==
    IF req.header # "bearer" THEN 401
    ELSE IF IsNone(verify_user_token(req)) THEN 401
    ELSE 0

require_auth(required_groups, req) ==
    IF req.header # "bearer" THEN 401
    ELSE LET user_info == verify_user_token(req)
         IN  IF IsNone(user_info) THEN 401
             ELSE IF required_groups # {} /\ user_info.groups # {}
                       /\ ~check_user_permissions(user_info, required_groups)
                  THEN 403
                  ELSE 0

\* The groups each route is decorated with
RequiredGroups(route) ==
    CASE route = "train_model" -> {"Administrators"}
      [] route = "simulate_ride" -> {"Administrators", "Operators"}
      [] route = "status" -> Groups
      [] route = "baseline_data" -> Groups
      [] route = "fault_info" -> Groups
      [] route = "get_alerts" -> Groups
      [] route = "acknowledge_alert" -> {"Administrators", "Operators"}
      [] route = "handle_assets" -> {"Administrators", "Operators"}
      [] route = "handle_asset" -> {"Administrators"}
      [] route = "handle_branding" -> {"Administrators"}
      [] route = "test_auth" -> {}
      [] route = "chat" -> {"Administrators", "Operators"}

Gate(route, req) == require_auth(RequiredGroups(route), req)

(* ----------------------- api_server: simulate-ride --------------------- *)
\* generate_fault_dataset(samples_per_class=30)
SamplesPerClass == 30

\* classifier.predict_ride: the class and the confidence (hundredths) the
\* network may answer with
PredictedLabels == {"NORMAL", "BALL_FAULT"}

Predictions == [fault_type : PredictedLabels, confidence : {60, 65, 95}]

\* 'LOW' if confidence < 0.7 else 'MEDIUM' if confidence < 0.9 else 'HIGH'
Severity(confidence) ==
    IF confidence < 70 THEN "LOW" ELSE IF confidence < 90 THEN "MEDIUM" ELSE "HIGH"

\* lstm_result of simulate_ride
LstmResult(trained, pred) ==
    IF trained
    THEN [fault_type |-> pred.fault_type, confidence |-> pred.confidence,
          is_healthy |-> pred.fault_type = "NORMAL",
          severity |-> Severity(pred.confidence)]
    ELSE [fault_type |-> "MODEL_NOT_TRAINED", confidence |-> 0,
          is_healthy |-> TRUE, severity |-> "UNKNOWN"]

\* "Identify fault frequencies based on fault type", in units of 1/600 Hz
ReportedFaultFrequencies(fault_type) ==
    CASE fault_type = "OUTER_RACE_FAULT" -> <<1980, 3960, 5940>>
      [] fault_type = "INNER_RACE_FAULT" -> <<3000, 6000, 9000>>
      [] fault_type = "BALL_FAULT" -> <<4020, 8040>>
      [] fault_type = "CAGE_FAULT" -> <<102, 204>>
      [] OTHER -> <<>>

\* `if not lstm_result['is_healthy'] and lstm_result['confidence'] > 0.6`
AlertWanted_inclusive(lstm_result) ==
    ~lstm_result.is_healthy /\ lstm_result.confidence >= 60

AlertWanted(lstm_result) ==
    ~lstm_result.is_healthy /\ lstm_result.confidence > 60

\* data.get('asset_id', None) of a body without the key
NoAssetId == -1

\* `not asset_id`: true of None and of 0
Falsy(asset_id) == asset_id \in {NoAssetId, 0}

\* db.query(Asset).first(): SQLite scans the table in rowid order
FirstAssetId(rows) == CHOOSE id \in {r.id : r \in rows} : \A r \in rows : id <= r.id

\* asset_id = data.get('asset_id'); `if not asset_id` then takes the id of
\* the first row of the assets table, else 1
ResolveAsset(asset_id, rows) ==
    IF ~Falsy(asset_id) THEN asset_id
    ELSE IF rows = {} THEN 1
    ELSE FirstAssetId(rows)

\* The same with the database unreachable or not: a failing query falls into
\* the bare `except:` and the id becomes 1
ResolveAssets(asset_id, rows) ==
    {ResolveAsset(asset_id, rows)} \cup (IF Falsy(asset_id) THEN {1} ELSE {})

(* -------------------------------- state -------------------------------- *)
VARIABLES
    baseline_data,      \* BearingFaultSimulator.baseline_data
    loaded,             \* the frame pd.read_csv returned at construction
    ride_counter,       \* BearingFaultSimulator.ride_counter
    bearing_params,     \* BearingFaultSimulator.bearing_params
    fault_frequencies,  \* BearingFaultSimulator.fault_frequencies
    sim_ride_counter,   \* RideSimulator.ride_counter
    last,               \* the latest call of a single caller and its outcome
    n_returned,         \* records returned so far by the five methods
    drawn,              \* severities the latest call passed, and how chosen
    pc,                 \* concurrent callers: position inside a method
    tmp,                \* concurrent callers: the counter value just read
    job,                \* concurrent callers: the method being run
    conc_returned,      \* concurrent callers: the records returned, in order
    started,            \* concurrent callers: calls begun
    overlap,            \* a call began while another was in progress
    forced,             \* force_fault_type of the latest run_ride_cycle
    active_alerts,      \* api_server.active_alerts
    alert_op,           \* the latest create_alert / acknowledge_alert call
    introduced,         \* (asset, fault) pairs alerted so far
    extra,              \* repeated alerts and acknowledgements so far
    is_trained,         \* classifier.is_trained
    response,           \* the latest HTTP request and its response
    assets,             \* rows of the assets table
    settings,           \* settings file: branding entry, length of 'assets'
    group_members,      \* Cognito: <<pool, user, group>> memberships
    invocation          \* the latest run of the post-confirmation trigger

vars == <<baseline_data, loaded, ride_counter, bearing_params, fault_frequencies,
          sim_ride_counter, last, n_returned, drawn, pc, tmp, job,
          conc_returned, started, overlap, forced, active_alerts,
          alert_op, introduced, extra, is_trained, response, assets, settings,
          group_members, invocation>>

seqVars == <<last, n_returned, drawn>>

concVars == <<pc, tmp, job, conc_returned, started, overlap>>

configVars == <<bearing_params, fault_frequencies>>

cycleVars == <<forced>>

alertVars == <<active_alerts, alert_op, introduced, extra>>

serverVars == <<is_trained, response>>

dbVars == <<assets, settings>>

triggerVars == <<group_members, invocation>>

simVars == <<baseline_data, loaded, ride_counter, sim_ride_counter>>

NoCall ==
    [src |-> "none", op |-> "NORMAL", severity |-> {}, err |-> FALSE,
     df |-> EmptyFrame, records |-> <<>>, before |-> 0, k |-> 0]

NoAlertOp == [op |-> "none", asset_id |-> 0, fault_type |-> "NORMAL", alert_id |-> 0,
              status |-> 0]

NoResponse == [route |-> "none", auth |-> NoHeader, status |-> 0, ran |-> FALSE,
               body |-> <<>>]

NoEvent == [userPoolId |-> "", userName |-> "", triggerSource |-> ""]

NoInvocation == [event |-> NoEvent, returned |-> NoEvent, raised |-> FALSE,
                 calls |-> <<>>]

\* BearingFaultSimulator.__init__ and RideSimulator.__init__
InitSimulator ==
    /\ baseline_data \in read_csv
    /\ loaded = baseline_data
    /\ ride_counter = 0
    /\ bearing_params = BearingParams
    /\ fault_frequencies = _calculate_fault_frequencies(BearingParams)
    /\ sim_ride_counter = 0
    /\ last = NoCall
    /\ n_returned = 0
    /\ drawn = {}
    /\ pc = [t \in Threads |-> "idle"]
    /\ tmp = [t \in Threads |-> 0]
    /\ job = [t \in Threads |-> "NORMAL"]
    /\ conc_returned = <<>>
    /\ started = 0
    /\ overlap = FALSE
    /\ forced = "None"

\* api_server.py at import: active_alerts = [], no request served yet; the
\* assets table and the settings file as init_db.py leaves them; a user pool
\* in which nobody has been confirmed.
InitServer ==
    /\ active_alerts = <<>>
    /\ alert_op = NoAlertOp
    /\ introduced = 0
    /\ extra = 0
    /\ response = NoResponse
    /\ assets = {}
    /\ settings = [branding |-> "default", assets |-> 0]
    /\ group_members = {}
    /\ invocation = NoInvocation

\* No models/lstm_fault_model.h5 on disk: the classifier starts untrained.
Init ==
    /\ InitSimulator
    /\ InitServer
    /\ is_trained = FALSE

(* ------------------------ single caller: actions ----------------------- *)
\* One call of a simulate_* method by a single caller: increment, body,
\* return or raise.  configVars is left to the calling action.
Call(label, severity, how, noise) ==
    \E rc1 \in {IncrementCounter(ride_counter)} :
      \E ride \in {Body(label, baseline_data, fault_frequencies, bearing_params,
                        severity, noise, rc1)} :
        /\ ride_counter < MaxRides
        /\ ride_counter' = rc1
        /\ baseline_data' = BaselineAfterRide(baseline_data, ride)
        /\ last' = [src |-> "direct", op |-> label,
                    severity |-> IF label = "NORMAL" THEN {} ELSE {severity},
                    err |-> ride.err,
                    df |-> IF ride.err THEN EmptyFrame ELSE ride,
                    records |-> IF ride.err THEN <<>> ELSE <<Summary(ride, label)>>,
                    before |-> ride_counter, k |-> 0]
        /\ n_returned' = IF ride.err THEN n_returned ELSE n_returned + 1
        /\ drawn' = IF label = "NORMAL" THEN {}
                    ELSE {[op |-> label, sev |-> severity, how |-> how]}
        /\ UNCHANGED <<loaded, sim_ride_counter>>
        /\ UNCHANGED concVars
        /\ UNCHANGED <<cycleVars, alertVars, serverVars, dbVars, triggerVars>>

\* A fault method called with its default severity or with one of the caller's.
FaultCall(label) ==
    \E how \in {"default", "caller"} :
      \E severity \in (IF how = "default" THEN {DefaultSeverity(label)}
                       ELSE CallerSeverities) :
        \E noise \in SharedNoise(Len(baseline_data.rows)) :
            Call(label, severity, how, noise)

simulate_normal_ride ==
    /\ \E noise \in NoiseDraws(Len(baseline_data.rows)) :
            Call("NORMAL", 0, "none", noise)
    /\ UNCHANGED configVars

simulate_outer_race_fault ==
    /\ FaultCall("OUTER_RACE_FAULT")
    /\ UNCHANGED configVars

simulate_inner_race_fault ==
    /\ FaultCall("INNER_RACE_FAULT")
    /\ UNCHANGED configVars

simulate_ball_fault ==
    /\ FaultCall("BALL_FAULT")
    /\ UNCHANGED configVars

simulate_cage_fault_retune ==
    /\ FaultCall("CAGE_FAULT")
    /\ fault_frequencies' = [fault_frequencies EXCEPT !.cage_fault = @ + 1]
    /\ UNCHANGED bearing_params

simulate_cage_fault ==
    /\ FaultCall("CAGE_FAULT")
    /\ UNCHANGED configVars


FaultOnlyLabels == FaultLabelSet \ {"NORMAL"}

\* generate_fault_dataset(samples_per_class = k) as one call.  at[j] says
\* where in its range the j-th random.uniform of each lambda falls.
generate_fault_dataset ==
    /\ \E k \in 0..MaxK :
        /\ ride_counter < MaxRides
        /\ \E at \in [1..range_len(k) -> {0, 1, 2}] :
          \E sevs \in {[l \in FaultOnlyLabels |->
                            [j \in 1..range_len(k) |-> UniformAt(DatasetRange(l), at[j])]]} :
           \E r \in {generate_fault_dataset_fn(k, sevs, ride_counter, baseline_data,
                                                fault_frequencies, bearing_params)} :
            LET made == r.ride_counter - ride_counter
                per == range_len(k)
            IN  /\ ride_counter' = r.ride_counter
                /\ baseline_data' = r.baseline
                /\ last' = [src |-> "dataset", op |-> "NORMAL", severity |-> {},
                            err |-> r.err, df |-> EmptyFrame, records |-> r.records,
                            before |-> ride_counter, k |-> k]
                /\ n_returned' = n_returned + Len(r.records)
                /\ drawn' = {[op |-> DatasetLabel(idx, per),
                              sev |-> sevs[DatasetLabel(idx, per)][DatasetSample(idx, per)],
                              how |-> "dataset"] :
                                idx \in {i \in 1..made : DatasetLabel(i, per) # "NORMAL"}}
    /\ UNCHANGED <<loaded, sim_ride_counter>>
    /\ UNCHANGED configVars
    /\ UNCHANGED concVars
    /\ UNCHANGED <<cycleVars, alertVars, serverVars, dbVars, triggerVars>>

\* run_ride_cycle, "Determine fault type": the forced type if one is given,
\* else np.random.choice over the keys of fault_probabilities
CycleFaultTypes_random(force) == FaultLabelSet

CycleFaultTypes(force) == IF force # "None" THEN {force} ELSE FaultLabelSet

\* RideSimulator.run_ride_cycle(force_fault_type) for force_fault_type in
\* forces ("None": no forced type, the type is then np.random.choice over
\* fault_probabilities, all > 0).  ats says where in its range the
\* random.uniform may fall; one_noise keeps np.random.normal to one vector.
\* The guard and the simulator's other fields are left to the caller.
RideCycle(forces, src, ats, one_noise) ==
    \E force \in forces :
      \E fault_type \in CycleFaultTypes(force) :
        \E severity \in (IF fault_type = "NORMAL" THEN {0}
                         ELSE {UniformAt(CycleRange(fault_type), at) : at \in ats}) :
          \E noise \in (IF one_noise
                         THEN {[a \in {"x", "y", "z"} |->
                                  [i \in 1..Len(baseline_data.rows) |-> 20]]}
                         ELSE NoiseFor(fault_type, Len(baseline_data.rows))) :
            \E rc1 \in {IncrementCounter(ride_counter)} :
              \E ride \in {Body(fault_type, baseline_data, fault_frequencies,
                                 bearing_params, severity, noise, rc1)} :
                \E out \in {CycleTail(ride)} :
                    /\ ride_counter' = rc1
                    /\ baseline_data' = BaselineAfterRide(baseline_data, ride)
                    /\ last' = [src |-> src, op |-> fault_type,
                                severity |-> IF fault_type = "NORMAL" THEN {}
                                             ELSE {severity},
                                err |-> out.err,
                                df |-> IF out.err THEN EmptyFrame ELSE out,
                                records |-> IF ride.err THEN <<>>
                                            ELSE <<Summary(ride, fault_type)>>,
                                before |-> ride_counter, k |-> 0]
                    /\ n_returned' = IF ride.err THEN n_returned ELSE n_returned + 1
                    /\ drawn' = IF fault_type = "NORMAL" THEN {}
                                ELSE {[op |-> fault_type, sev |-> severity,
                                       how |-> "cycle"]}
                    /\ forced' = force

\* run_ride_cycle() called without a forced type
run_ride_cycle ==
    /\ ride_counter < MaxRides
    /\ RideCycle({"None"}, "cycle", {0, 1, 2}, FALSE)
    /\ UNCHANGED <<loaded, sim_ride_counter>>
    /\ UNCHANGED configVars
    /\ UNCHANGED concVars
    /\ UNCHANGED <<alertVars, serverVars, dbVars, triggerVars>>

Next ==
    \/ simulate_normal_ride
    \/ simulate_outer_race_fault
    \/ simulate_inner_race_fault
    \/ simulate_ball_fault
    \/ simulate_cage_fault
    \/ generate_fault_dataset
    \/ run_ride_cycle

Spec == Init /\ [][Next]_vars

(* ------------------------- forced ride cycles -------------------------- *)
\* run_ride_cycle(force_fault_type = f), f one of the five labels
run_forced_ride_cycle ==
    /\ ride_counter < MaxRides
    /\ RideCycle(FaultLabelSet, "cycle", {1}, TRUE)
    /\ UNCHANGED <<loaded, sim_ride_counter>>
    /\ UNCHANGED configVars
    /\ UNCHANGED concVars
    /\ UNCHANGED <<alertVars, serverVars, dbVars, triggerVars>>

\* RideSimulator.generate_fault_specific_ride(fault_type)
generate_fault_specific_ride ==
    /\ ride_counter < MaxRides
    /\ RideCycle(FaultLabelSet, "specific", {1}, TRUE)
    /\ UNCHANGED <<loaded, sim_ride_counter>>
    /\ UNCHANGED configVars
    /\ UNCHANGED concVars
    /\ UNCHANGED <<alertVars, serverVars, dbVars, triggerVars>>

NextCycle == run_forced_ride_cycle \/ generate_fault_specific_ride

SpecCycle == Init /\ [][NextCycle]_vars

(* --------------------------- alerts: actions --------------------------- *)
\* create_alert for the k-th pair.  A pair alerted for the first time comes
\* with confidence 0.65 / 'LOW', an alert raised again for a known pair with
\* 0.95 / 'HIGH'.
create_alert ==
    /\ \E k \in 1..NumAlertPairs :
        /\ k <= introduced + 1
        /\ k <= introduced => extra < MaxExtra
        /\ active_alerts' = create_alert_fn(active_alerts, AlertPair(k).asset_id,
                                            AlertPair(k).fault_type,
                                            IF k <= introduced THEN 95 ELSE 65,
                                            IF k <= introduced THEN "HIGH" ELSE "LOW")
        /\ alert_op' = [op |-> "create", asset_id |-> AlertPair(k).asset_id,
                        fault_type |-> AlertPair(k).fault_type, alert_id |-> 0,
                        status |-> 200]
        /\ introduced' = IF k <= introduced THEN introduced ELSE k
        /\ extra' = IF k <= introduced THEN extra + 1 ELSE extra
    /\ UNCHANGED <<simVars, configVars, seqVars, concVars, cycleVars, serverVars,
                   dbVars, triggerVars>>

\* acknowledge_alert(alert_id) for an id in the list or for an id that is not
acknowledge_alert ==
    /\ extra < MaxExtra
    /\ \E alert_id \in {0} \cup {active_alerts[i].id : i \in 1..Len(active_alerts)} :
        \E r \in {acknowledge_alert_fn(active_alerts, alert_id)} :
            /\ active_alerts' = r.alerts
            /\ alert_op' = [op |-> "acknowledge", asset_id |-> 0,
                            fault_type |-> "NORMAL", alert_id |-> alert_id,
                            status |-> r.status]
    /\ extra' = extra + 1
    /\ UNCHANGED introduced
    /\ UNCHANGED <<simVars, configVars, seqVars, concVars, cycleVars, serverVars,
                   dbVars, triggerVars>>

NextAlerts == create_alert \/ acknowledge_alert

\* the server started on a well-formed baseline trace
InitAlerts ==
    /\ Init
    /\ baseline_data.columns = RequiredColumns
    /\ Len(baseline_data.rows) = MaxLen

SpecAlerts == InitAlerts /\ [][NextAlerts]_vars

(* ------------------------- HTTP requests: actions ---------------------- *)
\* A response that leaves the state of the three servers as it was
Respond(route, req, status, ran, body) ==
    /\ response' = [route |-> route, auth |-> req, status |-> status, ran |-> ran,
                    body |-> body]
    /\ UNCHANGED <<simVars, configVars, seqVars, concVars, cycleVars, alertVars,
                   is_trained, dbVars, triggerVars>>

\* the decorator answers 401 or 403 itself
Deny(route, req) == Respond(route, req, Gate(route, req), FALSE, <<>>)

\* simulator.bearing_simulator.generate_fault_dataset(samples_per_class=30)
\* as train_model calls it in the current state, every severity drawn in
\* the middle of its range
TrainingSeverities ==
    [l \in FaultOnlyLabels |->
        [j \in 1..SamplesPerClass |-> UniformAt(DatasetRange(l), 1)]]

TrainingDataset ==
    IF ride_counter < MaxApiRides
    THEN generate_fault_dataset_fn(SamplesPerClass, TrainingSeverities, ride_counter,
                                   baseline_data, fault_frequencies, bearing_params)
    ELSE [err |-> TRUE, ride_counter |-> ride_counter, baseline |-> baseline_data,
          records |-> <<>>]

\* POST /api/train-model; r is the outcome of its generate_fault_dataset
\* call, whose records go to the classifier and are not kept.
\* classifier.train may raise (it does on traces shorter than one
\* sequence), and so may save_model after train has set is_trained.
train_model(req, r) ==
    IF Gate("train_model", req) # 0 THEN Deny("train_model", req)
    ELSE
    /\ ride_counter < MaxApiRides
    /\ \E outcome \in (IF r.err THEN {"dataset_raises"}
                       ELSE {"train_raises", "save_raises", "ok"}) :
            /\ ride_counter' = r.ride_counter
            /\ baseline_data' = r.baseline
            /\ last' = [src |-> "train", op |-> "NORMAL", severity |-> {},
                        err |-> r.err, df |-> EmptyFrame, records |-> <<>>,
                        before |-> ride_counter, k |-> SamplesPerClass]
            /\ n_returned' = n_returned + Len(r.records)
            /\ drawn' = {[op |-> l, sev |-> UniformAt(DatasetRange(l), 1),
                          how |-> "dataset"] :
                            l \in {x \in FaultOnlyLabels :
                                     \E i \in 1..Len(r.records) : r.records[i].op = x}}
            /\ is_trained' = (is_trained \/ outcome \in {"save_raises", "ok"})
            /\ response' = [route |-> "train_model", auth |-> req,
                            status |-> IF outcome = "ok" THEN 200 ELSE 500,
                            ran |-> TRUE, body |-> <<>>]
    /\ UNCHANGED <<loaded, sim_ride_counter>>
    /\ UNCHANGED <<configVars, concVars, cycleVars, alertVars, dbVars, triggerVars>>

\* POST /api/simulate-ride with force_fault_type = force and asset_id given
\* or not; pred is what predict_ride answers when the classifier is trained.
\* Any exception in the handler becomes a 500 response.
simulate_ride(req, force, asset_id, pred) ==
    IF Gate("simulate_ride", req) # 0 THEN Deny("simulate_ride", req)
    ELSE
    /\ ride_counter < MaxApiRides
    /\ RideCycle({force}, "cycle", {1}, TRUE)
    /\ \E ride_summary \in {IF last'.err THEN [err |-> TRUE]
                              ELSE get_ride_summary(last'.df)} :
        \E lstm_result \in {LstmResult(is_trained, pred)} :
         \E resolved \in ResolveAssets(asset_id, assets) :
          IF ride_summary.err
          THEN /\ response' = [route |-> "simulate_ride", auth |-> req,
                               status |-> 500, ran |-> TRUE, body |-> <<>>]
               /\ UNCHANGED active_alerts
          ELSE /\ active_alerts' =
                    IF AlertWanted(lstm_result)
                    THEN create_alert_fn(active_alerts, resolved,
                                         lstm_result.fault_type, lstm_result.confidence,
                                         lstm_result.severity)
                    ELSE active_alerts
               /\ response' =
                    [route |-> "simulate_ride", auth |-> req, status |-> 200,
                     ran |-> TRUE,
                     request |-> [force_fault_type |-> force, asset_id |-> asset_id],
                     body |-> [ride_id |-> ride_summary.ride_id,
                               actual_fault_type |-> ride_summary.fault_type,
                               is_actually_faulty |-> ride_summary.is_faulty,
                               predicted_fault_type |-> lstm_result.fault_type,
                               prediction_confidence |-> lstm_result.confidence,
                               is_predicted_healthy |-> lstm_result.is_healthy,
                               fault_severity |-> lstm_result.severity,
                               prediction_correct |->
                                   ride_summary.fault_type = lstm_result.fault_type,
                               fault_frequencies |->
                                   ReportedFaultFrequencies(ride_summary.fault_type)]]
    /\ UNCHANGED <<loaded, sim_ride_counter, alert_op, introduced, extra, is_trained>>
    /\ UNCHANGED <<configVars, concVars, dbVars, triggerVars>>

\* GET /api/status
status(req) ==
    IF Gate("status", req) # 0 THEN Deny("status", req)
    ELSE Respond("status", req, 200, TRUE,
                 [lstm_trained |-> is_trained, total_rides |-> sim_ride_counter])

\* GET /api/baseline-data: reads the CSV again; a frame without the columns
\* it uses gives a 500
baseline_data_request(req) ==
    IF Gate("baseline_data", req) # 0 THEN Deny("baseline_data", req)
    ELSE Respond("baseline_data", req,
                 IF RequiredColumns \subseteq loaded.columns THEN 200 ELSE 500,
                 TRUE, <<>>)

\* GET /api/fault-info
fault_info(req) ==
    IF Gate("fault_info", req) # 0 THEN Deny("fault_info", req)
    ELSE Respond("fault_info", req, 200, TRUE, <<>>)

\* GET /api/alerts
get_alerts(req) ==
    IF Gate("get_alerts", req) # 0 THEN Deny("get_alerts", req)
    ELSE Respond("get_alerts", req, 200, TRUE, [alerts |-> active_alerts])

\* POST /api/alerts/<alert_id>/acknowledge
acknowledge_alert_request(req, alert_id) ==
    IF Gate("acknowledge_alert", req) # 0 THEN Deny("acknowledge_alert", req)
    ELSE
    /\ \E r \in {acknowledge_alert_fn(active_alerts, alert_id)} :
        /\ active_alerts' = r.alerts
        /\ response' = [route |-> "acknowledge_alert", auth |-> req,
                        status |-> r.status, ran |-> TRUE, body |-> <<>>]
    /\ UNCHANGED <<simVars, configVars, seqVars, concVars, cycleVars, alert_op,
                   introduced, extra, is_trained, dbVars, triggerVars>>

\* asset_api: /api/admin/assets, GET lists the rows, POST adds a row and
\* appends its description to the settings file
handle_assets(req, method) ==
    IF Gate("handle_assets", req) # 0 THEN Deny("handle_assets", req)
    ELSE IF method = "GET"
    THEN Respond("handle_assets", req, 200, TRUE, [assets |-> assets])
    ELSE
    /\ settings.assets < MaxAssetRows
    /\ \E id \in {1 + Cardinality({r \in assets : TRUE}) + settings.assets
                      - Cardinality(assets)} :
        /\ assets' = assets \cup {[id |-> id, name |-> "new"]}
        /\ response' = [route |-> "handle_assets", auth |-> req, status |-> 200,
                        ran |-> TRUE, body |-> [id |-> id]]
    /\ settings' = [settings EXCEPT !.assets = @ + 1]
    /\ UNCHANGED <<simVars, configVars, seqVars, concVars, cycleVars, alertVars,
                   is_trained, triggerVars>>

\* asset_api: /api/admin/assets/<asset_id>, PUT sets fields of the row,
\* DELETE removes it; 404 when there is no such row
handle_asset(req, method, asset_id) ==
    IF Gate("handle_asset", req) # 0 THEN Deny("handle_asset", req)
    ELSE IF ~\E r \in assets : r.id = asset_id
    THEN Respond("handle_asset", req, 404, TRUE, <<>>)
    ELSE
    /\ assets' = IF method = "PUT"
                 THEN {IF r.id = asset_id THEN [r EXCEPT !.name = "renamed"] ELSE r :
                          r \in assets}
                 ELSE {r \in assets : r.id # asset_id}
    /\ response' = [route |-> "handle_asset", auth |-> req, status |-> 200,
                    ran |-> TRUE, body |-> <<>>]
    /\ UNCHANGED <<simVars, configVars, seqVars, concVars, cycleVars, alertVars,
                   is_trained, settings, triggerVars>>

\* asset_api: /api/admin/branding, POST writes the settings file, which
\* may fail (save_settings returns False, answer 500)
handle_branding(req, method) ==
    IF Gate("handle_branding", req) # 0 THEN Deny("handle_branding", req)
    ELSE IF method = "GET"
    THEN Respond("handle_branding", req, 200, TRUE, [branding |-> settings.branding])
    ELSE
    /\ \E saved \in BOOLEAN :
        /\ settings' = IF saved THEN [settings EXCEPT !.branding = "custom"]
                       ELSE settings
        /\ response' = [route |-> "handle_branding", auth |-> req,
                        status |-> IF saved THEN 200 ELSE 500,
                        ran |-> TRUE, body |-> <<>>]
    /\ UNCHANGED <<simVars, configVars, seqVars, concVars, cycleVars, alertVars,
                   is_trained, assets, triggerVars>>

\* asset_api: /api/test-auth, decorated with require_auth() without groups
test_auth(req) ==
    IF Gate("test_auth", req) # 0 THEN Deny("test_auth", req)
    ELSE Respond("test_auth", req, 200, TRUE, [groups |-> req.groups])

\* chat_server: /api/chat.  After the checks the handler answers 400 (no
\* message), 500 (no AWS credentials, agent failure) or 200.
chat(req) ==
    IF Gate("chat", req) # 0 THEN Deny("chat", req)
    ELSE \E code \in {200, 400, 500} : Respond("chat", req, code, TRUE, <<>>)

\* One user drives api_server.py with every kind of ride and prediction.
ApiUsers == {AdminUser, ViewerUser}

ApiAlertIds == {1, 2}

NextApi ==
    \E req \in ApiUsers :
        \/ \E force \in {"None", "CAGE_FAULT"} :
             \E asset_id \in {0, 2} :
               \E pred \in (IF is_trained THEN Predictions
                             ELSE {[fault_type |-> "NORMAL", confidence |-> 60]}) :
                    simulate_ride(req, force, asset_id, pred)
        \/ status(req)
        \/ baseline_data_request(req)
        \/ fault_info(req)
        \/ get_alerts(req)
        \/ \E alert_id \in ApiAlertIds : acknowledge_alert_request(req, alert_id)

\* models/lstm_fault_model.h5 may be on disk when api_server.py is imported
InitApi ==
    /\ InitSimulator
    /\ InitServer
    /\ is_trained \in BOOLEAN

SpecApi == InitApi /\ [][NextApi]_vars

\* The assets table when api_server.py starts serving: empty, or with rows
\* whose ids need not start at 1 (rows deleted through asset_api.py)
AssetTables ==
    {{}, {[id |-> 3, name |-> "new"]},
     {[id |-> 2, name |-> "new"], [id |-> 3, name |-> "renamed"]}}

\* asset_id of the request body: absent, 0, or the id of a row
RequestAssetIds == {NoAssetId, 0, 2}

\* /api/simulate-ride with every prediction the classifier may make, for
\* every way of naming the asset, followed by reads of the alert list
NextRide ==
    \E req \in ApiUsers :
        \/ \E force \in {"None", "BALL_FAULT"} :
             \E asset_id \in RequestAssetIds :
               \E pred \in (IF is_trained THEN Predictions
                             ELSE {[fault_type |-> "NORMAL", confidence |-> 60]}) :
                    simulate_ride(req, force, asset_id, pred)
        \/ get_alerts(req)

InitRide ==
    /\ InitSimulator
    /\ active_alerts = <<>>
    /\ alert_op = NoAlertOp
    /\ introduced = 0
    /\ extra = 0
    /\ response = NoResponse
    /\ assets \in AssetTables
    /\ settings = [branding |-> "default", assets |-> Cardinality(assets)]
    /\ group_members = {}
    /\ invocation = NoInvocation
    /\ is_trained \in BOOLEAN

SpecRide == InitRide /\ [][NextRide]_vars

\* Training requests by every kind of caller, and the status they lead to
NextTrain ==
    \/ \E r \in {TrainingDataset} : \E req \in AuthCases : train_model(req, r)
    \/ \E req \in AuthCases : status(req)

SpecTrain == InitApi /\ [][NextTrain]_vars

\* Every kind of caller sends requests to the other routes of the three
\* servers.
NextAuth ==
    \E req \in AuthCases :
        \/ simulate_ride(req, "BALL_FAULT", 0, [fault_type |-> "BALL_FAULT",
                                                confidence |-> 95])
        \/ status(req)
        \/ baseline_data_request(req)
        \/ fault_info(req)
        \/ get_alerts(req)
        \/ acknowledge_alert_request(req, 1)
        \/ \E method \in {"GET", "POST"} : handle_assets(req, method)
        \/ \E method \in {"PUT", "DELETE"} : handle_asset(req, method, 1)
        \/ \E method \in {"GET", "POST"} : handle_branding(req, method)
        \/ test_auth(req)
        \/ chat(req)

InitAuth ==
    /\ InitApi
    /\ baseline_data.columns = RequiredColumns
    /\ Len(baseline_data.rows) = MaxLen

SpecAuth == InitAuth /\ [][NextAuth]_vars

(* ------------------ Cognito post-confirmation trigger ------------------ *)
\* cognito_post_confirmation_trigger.py.  Cognito invokes the handler with
\* an event that always carries userPoolId and userName; the handler's answer
\* is either a returned value or an exception that fails the confirmation.

UserPools == {"pool_a", "pool_b"}

UserNames == {"alice", "bob", "carol"}

TriggerSources == {"PostConfirmation_ConfirmSignUp",
                   "PostConfirmation_ConfirmForgotPassword"}

Events == [userPoolId : UserPools, userName : UserNames,
           triggerSource : TriggerSources]

\* cognito.admin_add_user_to_group either adds the membership or raises
\* (a ClientError such as ResourceNotFoundException or a throttling error).
AddOutcomes == {"ok", "raises"}

AddUserCall(event) ==
    [UserPoolId |-> event.userPoolId, Username |-> event.userName,
     GroupName |-> "Administrators"]

admin_add_user_to_group(members, call, outcome) ==
    IF outcome = "ok"
        THEN members \cup {<<call.UserPoolId, call.Username, call.GroupName>>}
        ELSE members

lambda_handler_unguarded(event, outcome) ==
    /\ group_members' = admin_add_user_to_group(group_members,
                                                AddUserCall(event), outcome)
    /\ invocation' = [event |-> event,
                      returned |-> IF outcome = "ok" THEN event ELSE NoEvent,
                      raised |-> outcome = "raises",
                      calls |-> <<AddUserCall(event)>>]
    /\ UNCHANGED <<simVars, configVars, seqVars, concVars, cycleVars,
                   alertVars, serverVars, dbVars>>

lambda_handler(event, outcome) ==
    /\ group_members' = admin_add_user_to_group(group_members,
                                                AddUserCall(event), outcome)
    /\ invocation' = [event |-> event,
                      returned |-> event,
                      raised |-> FALSE,
                      calls |-> <<AddUserCall(event)>>]
    /\ UNCHANGED <<simVars, configVars, seqVars, concVars, cycleVars,
                   alertVars, serverVars, dbVars>>

NextTrigger ==
    \E event \in Events, outcome \in AddOutcomes : lambda_handler(event, outcome)

SpecTrigger == InitAuth /\ [][NextTrigger]_vars

(* --------------------- concurrent callers: actions --------------------- *)
\* Two request threads of api_server.py call simulate_* methods of the one
\* module-level simulator.  `self.ride_counter += 1` is a read followed by a
\* write; the ride_id column is written from a later read of the counter.

\* a thread enters a method and reads self.ride_counter
LoadCounter(t) ==
    /\ pc[t] = "idle"
    /\ started < MaxConcRides
    /\ \E label \in FaultLabelSet : job' = [job EXCEPT ![t] = label]
    /\ tmp' = [tmp EXCEPT ![t] = ride_counter]
    /\ pc' = [pc EXCEPT ![t] = "loaded"]
    /\ started' = started + 1
    /\ overlap' = (overlap \/ \E u \in Threads \ {t} : pc[u] # "idle")
    /\ UNCHANGED <<baseline_data, loaded, ride_counter, sim_ride_counter, conc_returned>>
    /\ UNCHANGED configVars
    /\ UNCHANGED seqVars
    /\ UNCHANGED <<cycleVars, alertVars, serverVars, dbVars, triggerVars>>

\* the thread writes the incremented value back
StoreCounter(t) ==
    /\ pc[t] = "loaded"
    /\ ride_counter' = IncrementCounter(tmp[t])
    /\ pc' = [pc EXCEPT ![t] = "stored"]
    /\ UNCHANGED <<baseline_data, loaded, sim_ride_counter, tmp, job, conc_returned,
                   started, overlap>>
    /\ UNCHANGED configVars
    /\ UNCHANGED seqVars
    /\ UNCHANGED <<cycleVars, alertVars, serverVars, dbVars, triggerVars>>

\* the thread runs the rest of the method (default severity), stamps the
\* record with the counter as it is now, and returns it or raises
FinishRide(t) ==
    /\ pc[t] = "stored"
    /\ \E noise \in NoiseFor(job[t], Len(baseline_data.rows)) :
        LET label == job[t]
            sev   == IF label = "NORMAL" THEN 0 ELSE DefaultSeverity(label)
        IN  \E ride \in {Body(label, baseline_data, fault_frequencies, bearing_params,
                               sev, noise, ride_counter)} :
            /\ baseline_data' = BaselineAfterRide(baseline_data, ride)
            /\ conc_returned' = IF ride.err THEN conc_returned
                                ELSE Append(conc_returned,
                                            [thread |-> t, ride_id |-> ride_counter,
                                             record |-> Summary(ride, label)])
    /\ pc' = [pc EXCEPT ![t] = "idle"]
    /\ UNCHANGED <<loaded, ride_counter, sim_ride_counter, tmp, job, started, overlap>>
    /\ UNCHANGED configVars
    /\ UNCHANGED seqVars
    /\ UNCHANGED <<cycleVars, alertVars, serverVars, dbVars, triggerVars>>

NextConc == \E t \in Threads : LoadCounter(t) \/ StoreCounter(t) \/ FinishRide(t)

SpecConc == Init /\ [][NextConc]_vars


(* ------------------------------- claims -------------------------------- *)
AccelColumns == {"accel_x", "accel_y", "accel_z"}

\* A baseline that lacks a required column or has no samples.
Malformed(df) == ~(RequiredColumns \subseteq df.columns) \/ Len(df.rows) = 0

\* The latest action was one call of a simulate_* method by the caller.
DirectCall == last.src = "direct"

\* C1: a call of a simulate_* method by a single caller raises ride_counter
\* by exactly 1, and every row of the record it returns carries ride_id
\* equal to the counter after the increment.
C1_CounterAndRideId ==
    DirectCall =>
        /\ ride_counter = last.before + 1
        /\ ~last.err =>
              \A i \in 1..Len(last.df.rows) : last.df.rows[i]["ride_id"] = ride_counter

C1_Witness ==
    /\ DirectCall
    /\ ~last.err
    /\ last.op = "CAGE_FAULT"
    /\ last.before >= 1
    /\ Len(last.df.rows) >= 2

\* C2: over any sequence of calls on one generator (those made inside
\* generate_fault_dataset and run_ride_cycle included) the m-th record
\* returned carries ride id m, and its fault_type is the label of the
\* method that produced it.
C2_ConsecutiveRideIds ==
    \A j \in 1..Len(last.records) :
        /\ last.records[j].ride_ids \subseteq {n_returned - Len(last.records) + j}
        /\ last.records[j].fault_types \subseteq {last.records[j].op}

\* C3: generate_fault_dataset(k), when it returns, returns 5k records, k of
\* each label, grouped in the order of the five labels, and has advanced the
\* counter by 5k.
C3_DatasetShape ==
    (last.src = "dataset" /\ ~last.err) =>
        /\ Len(last.records) = 5 * last.k
        /\ ride_counter = last.before + 5 * last.k
        /\ \A l \in 1..5 :
              Cardinality({j \in 1..Len(last.records) :
                              last.records[j].op = FaultLabels[l]}) = last.k
        /\ \A j \in 1..Len(last.records) :
              /\ last.records[j].op = FaultLabels[((j - 1) \div last.k) + 1]
              /\ "fault_type" \in last.records[j].columns
              /\ last.records[j].fault_types \subseteq {last.records[j].op}

C3_Witness ==
    /\ last.src = "dataset"
    /\ ~last.err
    /\ last.k = 2
    /\ last.before >= 1
    /\ Len(last.records) = 10
    /\ last.records[10].fault_types = {"CAGE_FAULT"}

\* C4: the record a simulate_* method returns has as many samples as the
\* baseline and the baseline's timestamps sample by sample; beyond accel_x,
\* accel_y, accel_z nothing is altered, and ride_id and fault_type are the
\* only columns added.
C4_LengthAndTimestamps ==
    (DirectCall /\ ~last.err) =>
        /\ Len(last.df.rows) = Len(baseline_data.rows)
        /\ last.df.columns = baseline_data.columns \cup {"ride_id", "fault_type"}
        /\ \A i \in 1..Len(last.df.rows) :
              \A c \in baseline_data.columns \ AccelColumns :
                  last.df.rows[i][c] = baseline_data.rows[i][c]

C4_Witness ==
    /\ DirectCall
    /\ ~last.err
    /\ last.op = "BALL_FAULT"
    /\ Len(last.df.rows) >= 2
    /\ "timestamp" \in last.df.columns
    /\ \E i \in 1..Len(last.df.rows) :
          last.df.rows[i]["accel_x"] # baseline_data.rows[i]["accel_x"]

\* C5: baseline_data stays the frame loaded at construction, and a NORMAL
\* record differs from that frame by one noise draw per sample, whatever
\* was generated before it.
C5_BaselineUnchanged ==
    /\ baseline_data = loaded
    /\ (DirectCall /\ last.op = "NORMAL" /\ ~last.err) =>
          \A i \in 1..Len(last.df.rows) :
              \A c \in AccelColumns :
                  (last.df.rows[i][c] - loaded.rows[i][c]) \in NoiseVals

C5_Witness ==
    /\ DirectCall
    /\ last.op = "NORMAL"
    /\ ~last.err
    /\ n_returned >= 3
    /\ Len(last.df.rows) >= 1

\* C6: the fault-frequency table and the bearing parameters keep the values
\* written at construction through every operation.
C6_FrequenciesFixed ==
    /\ bearing_params = BearingParams
    /\ fault_frequencies = _calculate_fault_frequencies(BearingParams)
    /\ DOMAIN fault_frequencies = {"outer_race", "inner_race", "ball_fault", "cage_fault"}

C6_Witness ==
    /\ last.src = "cycle"
    /\ last.op = "CAGE_FAULT"
    /\ ~last.err
    /\ n_returned >= 3

\* C7: a simulate_* method called on a generator whose baseline is malformed
\* (a required column absent, or no samples) raises instead of returning.
C7_MalformedBaselineFails ==
    (DirectCall /\ Malformed(loaded)) => last.err

\* C8: a simulate_* method that raises leaves the generator as it was before
\* the call, the ride counter included.
C8_FailureLeavesStateAlone ==
    (DirectCall /\ last.err) =>
        /\ ride_counter = last.before
        /\ baseline_data = loaded

\* C9: as long as no call of the two callers began while another was in
\* progress, the ride ids of the returned records are pairwise distinct; an
\* interleaving can make two returned records carry the same ride id.
C9_DistinctWithoutInterleaving ==
    ~overlap =>
        \A i, j \in 1..Len(conc_returned) :
            i # j => conc_returned[i].ride_id # conc_returned[j].ride_id

C9_Witness ==
    \E i, j \in 1..Len(conc_returned) :
        /\ i # j
        /\ conc_returned[i].thread # conc_returned[j].thread
        /\ conc_returned[i].record.n >= 1
        /\ conc_returned[i].record.ride_ids = conc_returned[j].record.ride_ids

\* C10: a severity that the caller did not supply lies in the range of its
\* fault type (outer 0.2-0.5, inner 0.3-0.6, ball 0.2-0.4, cage 0.1-0.3) and
\* in 0-1; the dataset and the ride cycle use the same range for the same
\* type; the method defaults lie in 0-1; NORMAL rides take no severity.
C10_SeverityRanges ==
    LET range == [l \in FaultOnlyLabels |->
                    CASE l = "OUTER_RACE_FAULT" -> <<20, 50>>
                      [] l = "INNER_RACE_FAULT" -> <<30, 60>>
                      [] l = "BALL_FAULT"       -> <<20, 40>>
                      [] l = "CAGE_FAULT"       -> <<10, 30>>]
    IN  /\ \A d \in drawn :
              d.how # "caller" =>
                  /\ d.op \in FaultOnlyLabels
                  /\ range[d.op][1] <= d.sev /\ d.sev <= range[d.op][2]
                  /\ 0 <= d.sev /\ d.sev <= 100
        /\ \A d \in drawn :
              /\ d.how = "dataset" => d.sev \in Uniform(CycleRange(d.op))
              /\ d.how = "cycle" => d.sev \in Uniform(DatasetRange(d.op))
        /\ (last.src \in {"direct", "cycle"} /\ last.op = "NORMAL") =>
              (drawn = {} /\ last.severity = {})

C10_Witness ==
    /\ last.src = "cycle"
    /\ ~last.err
    /\ \E d \in drawn : d.how = "cycle" /\ d.op = "BALL_FAULT" /\ d.sev = 40

\* C12: simulate_cage_fault multiplies the baseline samples alone by
\* m(t) = 1 + severity*sin(2*pi*f_c*t), then adds 0.5*severity*sin(2*pi*f_c*t)
\* with weight 1 on x and y and 0.5 on z, then one noise array on all three
\* axes; at severity 0 the output is baseline + noise.
C12_CageModulation ==
    (DirectCall /\ last.op = "CAGE_FAULT" /\ ~last.err) =>
        \A sev \in last.severity :
          \E v \in NoiseVals :
            \A i \in 1..Len(last.df.rows) :
              LET row  == last.df.rows[i]
                  base == loaded.rows[i]
                  sin  == Sin48(Phase(fault_frequencies.cage_fault, base["timestamp"]))
                  m    == 100000 + sev * sin
                  add  == (sev * sin) \div 200
              IN  /\ row["accel_x"] = (base["accel_x"] * m) \div 100000 + add + v
                  /\ row["accel_y"] = (base["accel_y"] * m) \div 100000 + add + v
                  /\ row["accel_z"] = (base["accel_z"] * m) \div 100000
                                          + (add * 5) \div 10 + v
                  /\ sev = 0 => \A c \in AccelColumns : row[c] = base[c] + v

\* a cage-fault ride at a sample where the modulation and the additive
\* component are both non-zero
C12_Witness ==
    /\ DirectCall /\ last.op = "CAGE_FAULT" /\ ~last.err
    /\ last.severity = {150}
    /\ Len(last.df.rows) = 2
    /\ Sin48(Phase(fault_frequencies.cage_fault, loaded.rows[2]["timestamp"])) > 0

\* C16: run_ride_cycle(force_fault_type = f) and
\* generate_fault_specific_ride(f), f one of the five labels, return a ride
\* whose fault_type is f in every row, made by one call of the matching
\* bearing operation (the bearing counter advances by exactly 1), and
\* get_ride_summary of that ride reports the ride's ride_id, fault_type f
\* and is_faulty exactly when f is not NORMAL.
C16_ForcedRide ==
    (last.src \in {"cycle", "specific"} /\ forced \in FaultLabelSet /\ ~last.err) =>
        /\ \A i \in 1..Len(last.df.rows) : last.df.rows[i]["fault_type"] = forced
        /\ last.op = forced
        /\ Len(last.records) = 1
        /\ ride_counter = last.before + 1
        /\ LET summary == get_ride_summary(last.df)
           IN  ~summary.err =>
                 /\ summary.ride_id = ride_counter
                 /\ \A i \in 1..Len(last.df.rows) :
                        last.df.rows[i]["ride_id"] = summary.ride_id
                 /\ summary.fault_type = forced
                 /\ summary.is_faulty = (forced # "NORMAL")

\* a forced NORMAL ride whose summary is not faulty, after an earlier ride
C16_Witness ==
    /\ last.src = "specific" /\ forced = "NORMAL" /\ ~last.err
    /\ last.before = 1
    /\ Len(last.df.rows) = 2
    /\ ~get_ride_summary(last.df).err
    /\ ~get_ride_summary(last.df).is_faulty

\* q is made of the last Len(q) elements of r, in r's order
IsSuffix(q, r) ==
    /\ Len(q) <= Len(r)
    /\ \A i \in 1..Len(q) : q[i] = r[Len(r) - Len(q) + i]

\* the step is a call of create_alert / of acknowledge_alert
CreateStep == alert_op'.op = "create" /\ <<introduced, extra>>' # <<introduced, extra>>

AcknowledgeStep == alert_op'.op = "acknowledge" /\ extra' # extra

\* C15: acknowledge_alert(alert_id), when an active alert carries that id,
\* returns success and sets acknowledged on the alert with that id, changing
\* no other field and no other alert; otherwise it answers 404 and leaves
\* the list unchanged.
C15_Acknowledge ==
    [][AcknowledgeStep =>
        LET alert_id == alert_op'.alert_id
        IN  IF \E i \in 1..Len(active_alerts) : active_alerts[i].id = alert_id
            THEN /\ alert_op'.status = 200
                 /\ active_alerts' =
                        [i \in 1..Len(active_alerts) |->
                            IF active_alerts[i].id = alert_id
                            THEN [active_alerts[i] EXCEPT !.acknowledged = TRUE]
                            ELSE active_alerts[i]]
            ELSE /\ alert_op'.status = 404
                 /\ active_alerts' = active_alerts]_vars

\* C19: active_alerts never holds more than 10 alerts; after create_alert
\* the alert just created is the last element, and what precedes it are the
\* newest of the alerts that were kept, the oldest being the ones dropped.
C19_LimitAndNewest ==
    /\ [](Len(active_alerts) <= AlertLimit)
    /\ [][CreateStep =>
            LET n    == Len(active_alerts')
                kept == SelectSeq(active_alerts,
                                  LAMBDA a : ~(a.asset_id = alert_op'.asset_id
                                               /\ a.fault_type = alert_op'.fault_type))
            IN  /\ n >= 1
                /\ n = IF Len(kept) + 1 > AlertLimit THEN AlertLimit ELSE Len(kept) + 1
                /\ active_alerts'[n].asset_id = alert_op'.asset_id
                /\ active_alerts'[n].fault_type = alert_op'.fault_type
                /\ IsSuffix(SubSeq(active_alerts', 1, n - 1), kept)]_vars

\* an eleventh pair has been alerted and the first alert has left the list
C19_Witness ==
    /\ alert_op.op = "create"
    /\ introduced = AlertLimit + 1
    /\ Len(active_alerts) = AlertLimit
    /\ active_alerts[1].asset_id = AlertPair(2).asset_id
    /\ active_alerts[1].fault_type = AlertPair(2).fault_type
    /\ active_alerts[AlertLimit].asset_id = AlertPair(AlertLimit + 1).asset_id

\* C20: active_alerts holds at most one alert per (asset_id, fault_type);
\* create_alert for a pair that has an alert removes it and appends a new
\* unacknowledged one, the alerts of the other pairs keeping their order.
C20_OnePerPair ==
    /\ [](\A i, j \in 1..Len(active_alerts) :
            (active_alerts[i].asset_id = active_alerts[j].asset_id
             /\ active_alerts[i].fault_type = active_alerts[j].fault_type) => i = j)
    /\ [][CreateStep =>
            LET n      == Len(active_alerts')
                others == SelectSeq(active_alerts,
                                    LAMBDA a : a.asset_id # alert_op'.asset_id
                                               \/ a.fault_type # alert_op'.fault_type)
            IN  /\ ~active_alerts'[n].acknowledged
                /\ active_alerts'[n].asset_id = alert_op'.asset_id
                /\ active_alerts'[n].fault_type = alert_op'.fault_type
                /\ \A i \in 1..(n - 1) :
                        active_alerts'[i].asset_id # alert_op'.asset_id
                        \/ active_alerts'[i].fault_type # alert_op'.fault_type
                /\ Len(others) < AlertLimit =>
                        SubSeq(active_alerts', 1, n - 1) = others]_vars

\* the first pair's alert was acknowledged and then raised again: the new
\* alert is last and unacknowledged, the other pairs' alerts precede it
C20_Witness ==
    /\ alert_op.op = "create"
    /\ alert_op.asset_id = AlertPair(1).asset_id
    /\ alert_op.fault_type = AlertPair(1).fault_type
    /\ extra = 2
    /\ Len(active_alerts) = 3
    /\ active_alerts[3].confidence = 95
    /\ ~active_alerts[3].acknowledged
    /\ active_alerts[1].asset_id = AlertPair(2).asset_id
    /\ active_alerts[1].fault_type = AlertPair(2).fault_type

\* the frequency the simulator synthesises a ride of the given type with
UsedFrequency(fault_type) ==
    CASE fault_type = "OUTER_RACE_FAULT" -> fault_frequencies.outer_race
      [] fault_type = "INNER_RACE_FAULT" -> fault_frequencies.inner_race
      [] fault_type = "BALL_FAULT" -> fault_frequencies.ball_fault
      [] fault_type = "CAGE_FAULT" -> fault_frequencies.cage_fault

\* equal to within 0.05 Hz (30 units of 1/600 Hz)
Close(a, b) == a - b <= 30 /\ b - a <= 30

\* C11: the frequencies computed from 25 RPM and 8 rolling elements are
\* about 3.3, 5.0, 6.7 and 0.17 Hz, and the fault_frequencies list of a
\* simulate-ride response starts with the frequency the simulator used for
\* the ride's fault type, followed by its integer multiples.
C11_Frequencies ==
    /\ Close(fault_frequencies.outer_race, 1980)
    /\ Close(fault_frequencies.inner_race, 3000)
    /\ Close(fault_frequencies.ball_fault, 4020)
    /\ Close(fault_frequencies.cage_fault, 102)
    /\ (response.route = "simulate_ride" /\ response.status = 200
        /\ response.body.actual_fault_type # "NORMAL") =>
            LET listed == response.body.fault_frequencies
            IN  /\ Len(listed) >= 1
                /\ Close(listed[1], UsedFrequency(response.body.actual_fault_type))
                /\ \A i \in 1..Len(listed) : Close(listed[i], i * listed[1])

\* caller whose header lacks 'Bearer ' or whose token fails verification
BadAuth(req) == req.header # "bearer" \/ ~req.token_valid

\* what the handlers of the three servers can change
appVars == <<simVars, configVars, seqVars, cycleVars, alertVars, is_trained, dbVars>>

\* C13: on every route behind require_auth and on /api/chat, a request
\* without a 'Bearer ' header or with a token that fails verification is
\* answered 401 and the handler does not run: no ride, no alert created or
\* acknowledged, counters, table rows and settings as before.
C13_Unauthenticated ==
    /\ [](response.route # "none" /\ BadAuth(response.auth)
            => response.status = 401 /\ ~response.ran)
    /\ [][BadAuth(response'.auth) => UNCHANGED appVars]_vars

\* after a ride raised an alert, a forged token is used to acknowledge it
C13_Witness ==
    /\ response.route = "acknowledge_alert"
    /\ response.auth = BadToken
    /\ response.status = 401
    /\ ride_counter = 1
    /\ Len(active_alerts) = 1
    /\ ~active_alerts[1].acknowledged

\* verified caller with groups, none of which the route asks for
WrongGroups(req, route) ==
    /\ req.header = "bearer" /\ req.token_valid
    /\ req.groups # {}
    /\ RequiredGroups(route) # {}
    /\ req.groups \cap RequiredGroups(route) = {}

\* C14: a verified user with a non-empty group list holding none of the
\* route's required groups is answered 403 and the handler does not run; a
\* Viewers-only user cannot chat, simulate a ride, acknowledge an alert or
\* use a route reserved to Administrators.
C14_Forbidden ==
    /\ [](response.route # "none" /\ WrongGroups(response.auth, response.route)
            => response.status = 403 /\ ~response.ran)
    /\ [](response.auth = ViewerUser
           /\ response.route \in {"chat", "simulate_ride", "acknowledge_alert",
                                   "handle_asset", "handle_branding"}
            => response.status = 403 /\ ~response.ran)
    /\ [][response'.route # "none" /\ WrongGroups(response'.auth, response'.route)
            => UNCHANGED appVars]_vars

\* a Viewers-only user asks to acknowledge the alert an operator's ride raised
C14_Witness ==
    /\ response.route = "acknowledge_alert"
    /\ response.auth = ViewerUser
    /\ response.status = 403
    /\ Len(active_alerts) = 1
    /\ ~active_alerts[1].acknowledged

\* the step is a run_ride_cycle call that returned a ride
CycleCompleted == last' # last /\ last'.src = "cycle" /\ ~last'.err

\* C17: total_rides of /api/status, RideSimulator.ride_counter, is the
\* number of ride cycles run: 0 before any ride, one more after every
\* completed run_ride_cycle.
C17_TotalRides ==
    /\ sim_ride_counter = 0
    /\ [](response.route = "status" /\ response.status = 200
            => response.body.total_rides = sim_ride_counter)
    /\ [][CycleCompleted => sim_ride_counter' = sim_ride_counter + 1]_vars

\* C18: the post-confirmation trigger returns the event it received,
\* unchanged, whether admin_add_user_to_group succeeds or raises; it never
\* raises, and it calls admin_add_user_to_group exactly once, for the event's
\* user in the Administrators group of the event's user pool.  Nothing but
\* that membership is ever added to the pool.
TriggerRan == invocation.event # NoEvent

C18_TriggerReturnsEvent ==
    /\ [](TriggerRan =>
            /\ invocation.returned = invocation.event
            /\ ~invocation.raised
            /\ invocation.calls =
                 <<[UserPoolId |-> invocation.event.userPoolId,
                    Username |-> invocation.event.userName,
                    GroupName |-> "Administrators"]>>)
    /\ [][group_members' \in
            {group_members,
             group_members \cup {<<invocation'.event.userPoolId,
                                   invocation'.event.userName,
                                   "Administrators">>}}]_vars

\* A confirmation whose group assignment raised: the membership is missing
\* and the event came back all the same.
C18_Witness ==
    /\ TriggerRan
    /\ <<invocation.event.userPoolId, invocation.event.userName,
         "Administrators">> \notin group_members
    /\ invocation.returned = invocation.event
    /\ invocation.returned.triggerSource = "PostConfirmation_ConfirmSignUp"

\* A /api/simulate-ride request that went through the handler and was
\* answered with the analysis of a ride
RideAnswered ==
    /\ response'.route = "simulate_ride"
    /\ response'.ran
    /\ response'.status = 200
    /\ ride_counter' = ride_counter + 1

\* The alert a ride leaves at the end of the list
NewestAlert == active_alerts'[Len(active_alerts')]

\* What simulate_ride does to the alert list, the ids in asset_ids being the
\* ones the alert may carry
RideAlert(asset_ids) ==
    LET body == response'.body
        wanted == /\ is_trained
                  /\ body.predicted_fault_type # "NORMAL"
                  /\ body.prediction_confidence > 60
    IN  /\ wanted =>
              /\ Len(active_alerts') > 0
              /\ NewestAlert.asset_id \in asset_ids
              /\ NewestAlert.fault_type = body.predicted_fault_type
              /\ NewestAlert.confidence = body.prediction_confidence
              /\ ~NewestAlert.acknowledged
        /\ ~wanted => active_alerts' = active_alerts
        /\ ~is_trained =>
              /\ body.predicted_fault_type = "MODEL_NOT_TRAINED"
              /\ body.is_predicted_healthy
              /\ active_alerts' = active_alerts

\* the first asset's id, or 1
DefaultAssetIds == IF assets = {} THEN {1} ELSE {FirstAssetId(assets), 1}

====
